---- MODULE Spec2Model ----
(***************************************************************************)
(* Strategy 2 ("turtle head") pipeline of vertualmarker/strategy2.py.      *)
(*                                                                         *)
(* run_strategy2_on_points is modelled stage by stage: one action per      *)
(* statement group of the function, in program order.  The pure helpers    *)
(* are operators computed the way the Python code computes them (lists are *)
(* sequences, sets are sets, dicts are functions).                         *)
(*                                                                         *)
(* Points are <<x, y>> with integer coordinates (what parse_txt_points     *)
(* produces), y growing downward.                                          *)
(*                                                                         *)
(* Besides the pipeline, parse_txt_points, save_result_points_txt,          *)
(* geometry.sample_along_polyline and the batch loop of app.py              *)
(* (MainWindow.on_run) are modelled, each with its own specification.       *)
(*                                                                         *)
(* strategy2.py imports get_neighbors, find_endpoints,                     *)
(* find_connected_components, find_first_vertical_run,                     *)
(* find_first_horizontal_run, compute_line_intersection and                *)
(* sample_path_at_intervals from geometry.py, which does not define them;  *)
(* those operators follow sections 3 and 4 of the specification.           *)
(***************************************************************************)
EXTENDS Integers, Sequences, FiniteSets, TLC

VARIABLES pc, points, config, components, longest_two_info,
          longest_two_components, comp1, comp2, turtle_component,
          turtle_lowest_point, tlsp, turtle_path, front_head, upper_head,
          mv, mv_shifted, bsp, sampling_path, bending_points, diagnostics,
          error,
          \* the input TXT file read by parse_txt_points and the output TXT
          \* file written by save_result_points_txt (lists of lines)
          file, out_file,
          \* MainWindow.on_run: the file list, the loop index and the counters
          file_list, next_file, num_success, num_fail, warn_count,
          critical_count, log

fileVars == <<file, out_file>>

batchVars == <<file_list, next_file, num_success, num_fail, warn_count,
               critical_count, log>>

vars == <<pc, points, config, components, longest_two_info,
          longest_two_components, comp1, comp2, turtle_component,
          turtle_lowest_point, tlsp, turtle_path, front_head, upper_head,
          mv, mv_shifted, bsp, sampling_path, bending_points, diagnostics,
          error, file, out_file, file_list, next_file, num_success, num_fail,
          warn_count, critical_count, log>>

(***************************************************************************)
(* Bounds of the explored inputs.                                          *)
(***************************************************************************)
GridW == 3
GridH == 4
MaxPoints == 4
MaxThreshold == 2
MaxShift == 1
MaxPBL == 2
MaxStep == 2
MaxComponentPoints == 6

Grid == (0 .. GridW - 1) \X (0 .. GridH - 1)

(***************************************************************************)
(* Generic list helpers (Python list semantics).                           *)
(***************************************************************************)
Range(s) == {s[i] : i \in 1 .. Len(s)}

NoRepeat(s) == \A i, j \in 1 .. Len(s) : i # j => s[i] # s[j]

Last(s) == s[Len(s)]

Reverse(s) == [i \in 1 .. Len(s) |-> s[Len(s) + 1 - i]]

\* list.index(v): 1-based position of the first occurrence, 0 when absent
IndexOf(s, v) ==
    IF v \in Range(s) THEN CHOOSE i \in 1 .. Len(s) :
                               s[i] = v /\ \A j \in 1 .. i - 1 : s[j] # v
                      ELSE 0

\* max(seq, key=lambda p: p[1]): a later element replaces the best one only
\* when its y is strictly larger, so the first maximal element is returned.
\* MaxByYIn is that element of s[lo .. hi]; the scan is split in two halves
\* to keep the evaluation shallow on long lists.
RECURSIVE MaxByYIn(_, _, _)
MaxByYIn(s, lo, hi) ==
    IF lo = hi THEN s[lo]
    ELSE LET mid == (lo + hi) \div 2
             l == MaxByYIn(s, lo, mid)
             r == MaxByYIn(s, mid + 1, hi)
         IN  IF r[2] > l[2] THEN r ELSE l

\* the scan of s[i ..] (1-based) starting from best
MaxByYFrom(s, i, best) ==
    IF i > Len(s) THEN best
    ELSE LET m == MaxByYIn(s, i, Len(s))
         IN  IF m[2] > best[2] THEN m ELSE best

MaxByY(s) == MaxByYFrom(s, 2, s[1])

(***************************************************************************)
(* Input point lists.  A list holds the points of a subset of the grid of  *)
(* at most MaxPoints points, in the order of one of two scans of the grid: *)
(* row by row from the top left, or column by column from the bottom       *)
(* right.  The pipeline only compares coordinates with each other, so the  *)
(* subsets are taken up to translation: each touches x = 0 and y = 0.      *)
(***************************************************************************)
ScanOrders == {"rows", "cols_rev"}

RowsScan ==
    [i \in 1 .. GridW * GridH |-> <<(i - 1) % GridW, (i - 1) \div GridW>>]

ColsRevScan ==
    [i \in 1 .. GridW * GridH |->
        <<(GridW * GridH - i) \div GridH, (GridW * GridH - i) % GridH>>]

ScanList(S, o) ==
    SelectSeq(IF o = "rows" THEN RowsScan ELSE ColsRevScan, LAMBDA q : q \in S)

Anchored(S) ==
    S = {} \/ ((\E q \in S : q[1] = 0) /\ (\E q \in S : q[2] = 0))

InputSets ==
    {S \in SUBSET Grid : Cardinality(S) <= MaxPoints /\ Anchored(S)}

\* point lists handed directly to find_tlsp (connected or not)
ComponentSets ==
    {S \in SUBSET Grid :
        S # {} /\ Cardinality(S) <= MaxComponentPoints /\ Anchored(S)}

(***************************************************************************)
(* Configuration values explored (Strategy2Config fields).                 *)
(***************************************************************************)
Thresholds == 1 .. MaxThreshold

Shifts == {0 - MaxShift, 0, MaxShift}

\* SX values far enough from the contour for the distance thresholds of the
\* diagnostics (15 and 30 pixels at sample_step 1) to be crossed
FarShifts == {0 - 25, 0 - 30}

\* the (SX, SY) pairs explored: the far shifts are horizontal
ShiftPairs == (Shifts \X Shifts) \cup (FarShifts \X {0})

PBLs == 1 .. MaxPBL

Steps == {1, MaxStep}

\* stands for Python's None where a point is expected
NoPoint == <<-1, -1>>

(***************************************************************************)
(* geometry: 8-neighbourhood                                               *)
(***************************************************************************)
NeighborOffsets ==
    << <<-1, -1>>, <<-1, 0>>, <<-1, 1>>, <<0, -1>>,
       <<0, 1>>,   <<1, -1>>, <<1, 0>>,  <<1, 1>> >>

Adjacent(p, q) ==
    /\ p # q
    /\ p[1] - q[1] \in {-1, 0, 1}
    /\ p[2] - q[2] \in {-1, 0, 1}

\* the members of point_set among the 8 neighbours of p, in offset order
get_neighbors(p, point_set) ==
    SelectSeq([i \in 1 .. 8 |-> <<p[1] + NeighborOffsets[i][1],
                                  p[2] + NeighborOffsets[i][2]>>],
              LAMBDA q : q \in point_set)

\* degree-1 points of the component, in component order
find_endpoints(component) ==
    SelectSeq(component,
              LAMBDA p : Len(get_neighbors(p, Range(component))) = 1)

(***************************************************************************)
(* Connected-Component Builder: breadth-first traversal, one component per *)
(* unvisited seed, seeds taken in input order.                             *)
(***************************************************************************)
\* faulty variant of find_connected_components: diagonal neighbours skipped
RECURSIVE BfsComponent4(_, _, _, _)
BfsComponent4(queue, visited, comp, point_set) ==
    IF queue = <<>> THEN [comp |-> comp, visited |-> visited]
    ELSE LET cur == Head(queue)
             new == SelectSeq(get_neighbors(cur, point_set),
                              LAMBDA n : /\ n \notin visited
                                         /\ (n[1] = cur[1] \/ n[2] = cur[2]))
         IN  BfsComponent4(Tail(queue) \o new, visited \cup Range(new),
                           Append(comp, cur), point_set)

RECURSIVE ComponentsFrom4(_, _, _, _)
ComponentsFrom4(pts, i, visited, acc) ==
    IF i > Len(pts) THEN acc
    ELSE IF pts[i] \in visited THEN ComponentsFrom4(pts, i + 1, visited, acc)
    ELSE LET r == BfsComponent4(<<pts[i]>>, visited \cup {pts[i]}, <<>>,
                                Range(pts))
         IN  ComponentsFrom4(pts, i + 1, r.visited, Append(acc, r.comp))

find_connected_components_4(pts) == ComponentsFrom4(pts, 1, {}, <<>>)

RECURSIVE BfsComponent(_, _, _, _)
BfsComponent(queue, visited, comp, point_set) ==
    IF queue = <<>> THEN [comp |-> comp, visited |-> visited]
    ELSE LET cur == Head(queue)
             new == SelectSeq(get_neighbors(cur, point_set),
                              LAMBDA n : n \notin visited)
         IN  BfsComponent(Tail(queue) \o new, visited \cup Range(new),
                          Append(comp, cur), point_set)

RECURSIVE ComponentsFrom(_, _, _, _)
ComponentsFrom(pts, i, visited, acc) ==
    IF i > Len(pts) THEN acc
    ELSE IF pts[i] \in visited THEN ComponentsFrom(pts, i + 1, visited, acc)
    ELSE LET r == BfsComponent(<<pts[i]>>, visited \cup {pts[i]}, <<>>,
                               Range(pts))
         IN  ComponentsFrom(pts, i + 1, r.visited, Append(acc, r.comp))

find_connected_components(pts) == ComponentsFrom(pts, 1, {}, <<>>)

(***************************************************************************)
(* Contour Selector                                                        *)
(***************************************************************************)
\* (len, i) tuples compared the way Python compares tuples
TupleLess(a, b) == a[1] < b[1] \/ (a[1] = b[1] /\ a[2] < b[2])

\* lengths.sort(reverse=True): the list of (len(comp), i), largest tuple first
RECURSIVE SortTuplesDesc(_)
SortTuplesDesc(S) ==
    IF S = {} THEN <<>>
    ELSE LET m == CHOOSE a \in S : \A b \in S : b = a \/ TupleLess(b, a)
         IN  <<m>> \o SortTuplesDesc(S \ {m})

Lengths(comps) == SortTuplesDesc({<<Len(comps[i]), i>> : i \in 1 .. Len(comps)})

\* faulty variant of the guard below: lists of exactly two components rejected
TooFewComponentsOffByOne(comps) == Len(comps) <= 2

\* lines 111-112: the guard that raises "At least two connected line
\* components are required."
TooFewComponents(comps) == Len(comps) < 2

\* pick_two_longest_lines, for len(components) >= 2
pick_two_longest_lines(comps) ==
    <<comps[Lengths(comps)[1][2]], comps[Lengths(comps)[2][2]]>>

\* sorted(components, key=len, reverse=True): stable, equal lengths keep
\* their input order
RECURSIVE RankedIdx(_, _)
RankedIdx(comps, I) ==
    IF I = {} THEN <<>>
    ELSE LET m == CHOOSE i \in I : \A j \in I :
                      \/ Len(comps[j]) < Len(comps[i])
                      \/ (Len(comps[j]) = Len(comps[i]) /\ i <= j)
         IN  <<m>> \o RankedIdx(comps, I \ {m})

Ranked(comps) ==
    LET idx == RankedIdx(comps, 1 .. Len(comps))
    IN  [k \in 1 .. Len(comps) |-> comps[idx[k]]]

pick_longest_components(comps, count) ==
    IF comps = <<>> THEN <<>>
    ELSE SubSeq(Ranked(comps), 1, IF Len(comps) < count THEN Len(comps) ELSE count)

summarize_longest_two_lines(comps) ==
    LET top == pick_longest_components(comps, 2)
    IN  [k \in 1 .. Len(top) |-> <<MaxByY(top[k]), Len(top[k])>>]

\* faulty variant of find_turtle_line: strict comparison, so ties go to comp2
find_turtle_line_strict(c1, c2) ==
    IF MaxByY(c1)[2] > MaxByY(c2)[2] THEN c1 ELSE c2

find_turtle_line(c1, c2) ==
    IF MaxByY(c1)[2] >= MaxByY(c2)[2] THEN c1 ELSE c2

(***************************************************************************)
(* Path Orderer                                                            *)
(***************************************************************************)
\* parent[n] = cur for every n not yet in parent (dict update of the for loop)
SetParents(parent, new, cur) ==
    [p \in DOMAIN parent \cup Range(new) |->
        IF p \in DOMAIN parent THEN parent[p] ELSE cur]

\* the while loop of _shortest_path_in_component; returns the parent dict
RECURSIVE BfsParents(_, _, _, _)
BfsParents(queue, parent, end, point_set) ==
    IF queue = <<>> THEN parent
    ELSE LET cur == Head(queue)
         IN  IF cur = end THEN parent
             ELSE LET new == SelectSeq(get_neighbors(cur, point_set),
                                       LAMBDA n : n \notin DOMAIN parent)
                  IN  BfsParents(Tail(queue) \o new,
                                 SetParents(parent, new, cur), end, point_set)

\* faulty variant of the path reconstruction: the start point appended twice
RECURSIVE PathBackDupStart(_, _)
PathBackDupStart(cur, parent) ==
    IF cur = NoPoint THEN <<>>
    ELSE IF parent[cur] = NoPoint THEN <<cur, cur>>
    ELSE Append(PathBackDupStart(parent[cur], parent), cur)

\* faulty variant of the path reconstruction: path.reverse() left out
RECURSIVE PathBackUnreversed(_, _)
PathBackUnreversed(cur, parent) ==
    IF cur = NoPoint THEN <<>>
    ELSE <<cur>> \o PathBackUnreversed(parent[cur], parent)

\* follows the back-pointers from cur to the start, then reverses
RECURSIVE PathBack(_, _)
PathBack(cur, parent) ==
    IF cur = NoPoint THEN <<>>
    ELSE Append(PathBack(parent[cur], parent), cur)

shortest_path_in_component(component, start, end) ==
    IF start = end THEN <<start>>
    ELSE IF start \notin Range(component) \/ end \notin Range(component)
    THEN <<>>
    ELSE LET parent == BfsParents(<<start>>, (start :> NoPoint), end,
                                  Range(component))
         IN  IF end \notin DOMAIN parent THEN <<>> ELSE PathBack(end, parent)

\* the while loop of _farthest_point_by_steps
RECURSIVE BfsFarthest(_, _, _, _)
BfsFarthest(queue, dist, farthest, point_set) ==
    IF queue = <<>> THEN farthest
    ELSE LET cur == Head(queue)
             far == IF dist[cur] > dist[farthest] THEN cur
                    ELSE IF dist[cur] = dist[farthest] /\ cur[2] > farthest[2]
                    THEN cur ELSE farthest
             new == SelectSeq(get_neighbors(cur, point_set),
                              LAMBDA n : n \notin DOMAIN dist)
             d2  == [p \in DOMAIN dist \cup Range(new) |->
                        IF p \in DOMAIN dist THEN dist[p] ELSE dist[cur] + 1]
         IN  BfsFarthest(Tail(queue) \o new, d2, far, point_set)

farthest_point_by_steps(component, start) ==
    IF start \notin Range(component) THEN start
    ELSE BfsFarthest(<<start>>, (start :> 0), start, Range(component))

\* greedy walk: the while loop of _build_ordered_path
RECURSIVE WalkFrom(_, _, _)
WalkFrom(path, visited, point_set) ==
    LET current == Last(path)
        unvisited_neighbors == SelectSeq(get_neighbors(current, point_set),
                                         LAMBDA n : n \notin visited)
        prev_dir == <<path[Len(path)][1] - path[Len(path) - 1][1],
                      path[Len(path)][2] - path[Len(path) - 1][2]>>
        same_dir_neighbors ==
            SelectSeq(unvisited_neighbors,
                      LAMBDA n : <<n[1] - current[1], n[2] - current[2]>> = prev_dir)
        next_point ==
            IF Len(unvisited_neighbors) = 1 THEN unvisited_neighbors[1]
            ELSE IF Len(path) >= 2 /\ same_dir_neighbors # <<>>
            THEN same_dir_neighbors[1]
            ELSE unvisited_neighbors[1]
    IN  IF unvisited_neighbors = <<>> THEN path
        ELSE WalkFrom(Append(path, next_point), visited \cup {next_point},
                      point_set)

build_ordered_path(component, start) ==
    WalkFrom(<<start>>, {start}, Range(component))

\* faulty variant of the TLSP choice: endpoints are ignored when none of them
\* lies at the largest y of the component
TlspOfLowestPoint(component) ==
    LET max_y_point == MaxByY(component)
        tlsp_candidates == SelectSeq(find_endpoints(component),
                                     LAMBDA ep : ep[2] = max_y_point[2])
    IN  IF tlsp_candidates # <<>> THEN tlsp_candidates[1] ELSE max_y_point

\* lines 227-244 of find_tlsp
TlspOf(component) ==
    LET max_y_point == MaxByY(component)
        max_y == max_y_point[2]
        endpoints == find_endpoints(component)
        tlsp_candidates == SelectSeq(endpoints, LAMBDA ep : ep[2] = max_y)
    IN  IF endpoints # <<>>
        THEN IF tlsp_candidates # <<>> THEN tlsp_candidates[1]
             ELSE MaxByY(endpoints)
        ELSE max_y_point

\* faulty variant of the candidate loop: the last longest candidate on ties
RECURSIVE BestPathLast(_, _, _, _, _)
BestPathLast(component, start, eps, i, best_path) ==
    IF i > Len(eps) THEN best_path
    ELSE LET candidate == shortest_path_in_component(component, start, eps[i])
         IN  BestPathLast(component, start, eps, i + 1,
                          IF Len(candidate) >= Len(best_path) THEN candidate
                          ELSE best_path)

\* lines 250-255: the longest candidate, the first one on ties
RECURSIVE BestPath(_, _, _, _, _)
BestPath(component, start, eps, i, best_path) ==
    IF i > Len(eps) THEN best_path
    ELSE LET candidate == shortest_path_in_component(component, start, eps[i])
         IN  BestPath(component, start, eps, i + 1,
                      IF Len(candidate) > Len(best_path) THEN candidate
                      ELSE best_path)

\* lines 247-259: the path before the fallback
BfsPathOf(component, start) ==
    LET other_endpoints == SelectSeq(find_endpoints(component),
                                     LAMBDA ep : ep # start)
    IN  IF other_endpoints # <<>>
        THEN BestPath(component, start, other_endpoints, 1, <<>>)
        ELSE shortest_path_in_component(
                 component, start, farthest_point_by_steps(component, start))

\* faulty variant of find_tlsp: a path of two points counts as too short
find_tlsp_three_points(component) ==
    LET start == TlspOf(component)
        first == BfsPathOf(component, start)
        path == IF Len(first) < 2 THEN build_ordered_path(component, start)
                ELSE first
    IN  [ok |-> Len(path) >= 3, tlsp |-> start, path |-> path,
         fallback |-> Len(first) < 2]

\* find_tlsp: ok = FALSE stands for Strategy2Error("Turtle-line path is too short.")
find_tlsp(component) ==
    LET start == TlspOf(component)
        first == BfsPathOf(component, start)
        path == IF Len(first) < 2 THEN build_ordered_path(component, start)
                ELSE first
    IN  [ok |-> Len(path) >= 2, tlsp |-> start, path |-> path,
         fallback |-> Len(first) < 2]

(***************************************************************************)
(* Run Detector.  A run is a maximal stretch of consecutive path points    *)
(* sharing one coordinate (x for a vertical run, axis 1; y for a           *)
(* horizontal run, axis 2); it qualifies when it has at least min_length   *)
(* points.  The empty list stands for "not found".                         *)
(***************************************************************************)
RunEnd(path, i, axis) ==
    CHOOSE j \in i .. Len(path) :
        /\ \A k \in i .. j : path[k][axis] = path[i][axis]
        /\ j = Len(path) \/ path[j + 1][axis] # path[i][axis]

RECURSIVE FirstRun(_, _, _, _)
FirstRun(path, i, min_length, axis) ==
    IF i > Len(path) THEN <<>>
    ELSE LET j == RunEnd(path, i, axis)
         IN  IF j - i + 1 >= min_length THEN SubSeq(path, i, j)
             ELSE FirstRun(path, j + 1, min_length, axis)

find_first_vertical_run(path, min_length) == FirstRun(path, 1, min_length, 1)

find_first_horizontal_run(path, min_length) == FirstRun(path, 1, min_length, 2)

\* faulty variant of the slice below: the slice starts at FH's last point
remaining_path_from_end(path, fh_run) ==
    SubSeq(path, IndexOf(path, Last(fh_run)), Len(path))

\* path[front_head_end_idx + 1:], front_head_end_idx = path.index(front_head[-1])
remaining_path(path, fh_run) ==
    SubSeq(path, IndexOf(path, Last(fh_run)) + 1, Len(path))

\* faulty variant of the detector: UH is searched on the whole path
find_runs_whole_path(path, fh, uh) ==
    LET fh_run == find_first_vertical_run(path, fh)
        uh_run == find_first_horizontal_run(path, uh)
    IN  IF fh_run = <<>>
        THEN [err |-> "FH", front_head |-> <<>>, upper_head |-> <<>>]
        ELSE IF uh_run = <<>>
        THEN [err |-> "UH", front_head |-> fh_run, upper_head |-> <<>>]
        ELSE [err |-> "none", front_head |-> fh_run, upper_head |-> uh_run]

\* err is "none", "FH" or "UH" (the Strategy2Error raised)
find_front_head_and_upper_head(path, fh, uh) ==
    LET fh_run == find_first_vertical_run(path, fh)
        uh_run == find_first_horizontal_run(remaining_path(path, fh_run), uh)
    IN  IF fh_run = <<>>
        THEN [err |-> "FH", front_head |-> <<>>, upper_head |-> <<>>]
        ELSE IF uh_run = <<>>
        THEN [err |-> "UH", front_head |-> fh_run, upper_head |-> <<>>]
        ELSE [err |-> "none", front_head |-> fh_run, upper_head |-> uh_run]

(***************************************************************************)
(* Marker Engine                                                           *)
(***************************************************************************)
\* x of the FH line and y of the UH line (means of the run endpoints)
compute_line_intersection(fh_run, uh_run) ==
    <<(fh_run[1][1] + Last(fh_run)[1]) \div 2,
      (uh_run[1][2] + Last(uh_run)[2]) \div 2>>

compute_mv(fh_run, uh_run) == compute_line_intersection(fh_run, uh_run)

\* math.hypot is monotone: distances are compared through their squares
DistSq(p, q) == (p[1] - q[1]) * (p[1] - q[1]) + (p[2] - q[2]) * (p[2] - q[2])

\* faulty variant of the minimum: a later element also wins on equal distance
RECURSIVE MinByDistLast(_, _, _, _)
MinByDistLast(path, i, best, target) ==
    IF i > Len(path) THEN best
    ELSE MinByDistLast(path, i + 1,
                       IF DistSq(path[i], target) <= DistSq(best, target)
                       THEN path[i] ELSE best,
                       target)

\* min(turtle_path, key=distance to mv_shifted): a later element replaces the
\* best one only when it is strictly closer, so the first of the closest
\* elements is returned.  MinByDistIn is that element of path[lo .. hi]; the
\* scan is split in two halves to keep the evaluation shallow on long paths.
RECURSIVE MinByDistIn(_, _, _, _)
MinByDistIn(path, lo, hi, target) ==
    IF lo = hi THEN path[lo]
    ELSE LET mid == (lo + hi) \div 2
             l == MinByDistIn(path, lo, mid, target)
             r == MinByDistIn(path, mid + 1, hi, target)
         IN  IF DistSq(r, target) < DistSq(l, target) THEN r ELSE l

\* the scan of path[i ..] (1-based) starting from best
MinByDist(path, i, best, target) ==
    IF i > Len(path) THEN best
    ELSE LET m == MinByDistIn(path, i, Len(path), target)
         IN  IF DistSq(m, target) < DistSq(best, target) THEN m ELSE best

find_bsp(path, target) == MinByDist(path, 2, path[1], target)

\* faulty variant of the direction rule: the walk goes back toward TLSP
SamplingPathTowardTlsp(path, b, t) ==
    LET bsp_idx == IndexOf(path, b) - 1
        tlsp_idx == IndexOf(path, t) - 1
        left_len == bsp_idx + 1
        right_len == Len(path) - bsp_idx
        right == SubSeq(path, bsp_idx + 1, Len(path))
        left == Reverse(SubSeq(path, 1, bsp_idx + 1))
    IN  IF bsp_idx < tlsp_idx THEN right
        ELSE IF bsp_idx > tlsp_idx THEN left
        ELSE IF right_len >= left_len THEN right ELSE left

\* lines 399-416, with 0-based indices as in the code
SamplingPath(path, b, t) ==
    LET bsp_idx == IndexOf(path, b) - 1
        tlsp_idx == IndexOf(path, t) - 1
        left_len == bsp_idx + 1
        right_len == Len(path) - bsp_idx
        right == SubSeq(path, bsp_idx + 1, Len(path))
        left == Reverse(SubSeq(path, 1, bsp_idx + 1))
    IN  IF bsp_idx < tlsp_idx THEN left
        ELSE IF bsp_idx > tlsp_idx THEN right
        ELSE IF right_len >= left_len THEN right ELSE left

(***************************************************************************)
(* Trajectory Sampler (geometry.sample_along_polyline).  Consecutive path  *)
(* points are 8-neighbours, so every segment length is 0, 1 or sqrt(2) and *)
(* every arc length is a + b*sqrt(2) with integers a, b: the pair <<a, b>>.*)
(* The floating-point arithmetic of the code is modelled by this exact     *)
(* arithmetic.  A sample coordinate is the pair <<u, v>> standing for      *)
(* (u + v*sqrt(2)) / 2.                                                    *)
(***************************************************************************)
\* a + b*sqrt(2) > 0
Positive(n) ==
    LET a == n[1]
        b == n[2]
    IN  \/ a > 0 /\ b >= 0
        \/ a >= 0 /\ b > 0
        \/ a > 0 /\ b < 0 /\ a * a > 2 * b * b
        \/ a < 0 /\ b > 0 /\ 2 * b * b > a * a

Minus(m, n) == <<m[1] - n[1], m[2] - n[2]>>

Plus(m, n) == <<m[1] + n[1], m[2] + n[2]>>

\* Segment.length = math.hypot(dx, dy) for |dx|, |dy| <= 1
SegLength(p, q) ==
    IF p = q THEN <<0, 0>>
    ELSE IF p[1] = q[1] \/ p[2] = q[2] THEN <<1, 0>> ELSE <<0, 1>>

RECURSIVE SumLengths(_, _)
SumLengths(path, i) ==
    IF i >= Len(path) THEN <<0, 0>>
    ELSE Plus(SegLength(path[i], path[i + 1]), SumLengths(path, i + 1))

\* lines 115-120: the segment index (0-based) and the distance left on it
RECURSIVE Advance(_, _, _)
Advance(path, cur_seg_idx, remaining) ==
    IF /\ cur_seg_idx < Len(path) - 1
       /\ Positive(Minus(remaining,
                         SegLength(path[cur_seg_idx + 1], path[cur_seg_idx + 2])))
    THEN Advance(path, cur_seg_idx + 1,
                 Minus(remaining,
                       SegLength(path[cur_seg_idx + 1], path[cur_seg_idx + 2])))
    ELSE [idx |-> cur_seg_idx, remaining |-> remaining]

Exact(p) == <<<<2 * p[1], 0>>, <<2 * p[2], 0>>>>

\* faulty variant of interpolate: the fraction is not divided by the segment
\* length
InterpolateUnnormalised(from, to, len, remaining) ==
    <<2 * from + 2 * (to - from) * remaining[1], 2 * (to - from) * remaining[2]>>

\* interpolate(seg, remaining / seg.length), one coordinate
Interpolate(from, to, len, remaining) ==
    IF len = <<1, 0>>
    THEN <<2 * from + 2 * (to - from) * remaining[1],
           2 * (to - from) * remaining[2]>>
    ELSE <<2 * from + 2 * (to - from) * remaining[2],
           (to - from) * remaining[1]>>

\* lines 109-133: the sample at target distance n * step
SampleAt(path, n, step) ==
    LET a == Advance(path, 0, <<n * step, 0>>)
        start == path[a.idx + 1]
        end == path[a.idx + 2]
        len == SegLength(start, end)
    IN  IF a.idx >= Len(path) - 1 THEN Exact(Last(path))
        ELSE IF len = <<0, 0>> THEN Exact(end)
        ELSE <<Interpolate(start[1], end[1], len, a.remaining),
               Interpolate(start[2], end[2], len, a.remaining)>>

\* faulty variant of the sampler: the loop runs over range(1, num_samples)
sample_along_polyline_short(pts, start_index, num_samples, step, forward) ==
    LET path == IF forward THEN SubSeq(pts, start_index + 1, Len(pts))
                ELSE Reverse(SubSeq(pts, 1, start_index + 1))
        total_len == SumLengths(path, 1)
        required_len == <<step * (num_samples - 1), 0>>
    IN  IF pts = <<>> THEN [err |-> "empty", samples |-> <<>>]
        ELSE IF num_samples <= 0 THEN [err |-> "none", samples |-> <<>>]
        ELSE IF Len(path) < 2
        THEN [err |-> "not_enough_length", samples |-> <<>>]
        ELSE IF Positive(Minus(required_len, total_len))
        THEN [err |-> "too_short", samples |-> <<>>]
        ELSE [err |-> "none",
              samples |-> [k \in 1 .. num_samples - 1 |-> SampleAt(path, k, step)]]

\* faulty variant of the sampler: required_len = step * (num_samples - 2)
sample_along_polyline_lenient(pts, start_index, num_samples, step, forward) ==
    LET path == IF forward THEN SubSeq(pts, start_index + 1, Len(pts))
                ELSE Reverse(SubSeq(pts, 1, start_index + 1))
        total_len == SumLengths(path, 1)
        required_len == <<step * (num_samples - 2), 0>>
    IN  IF pts = <<>> THEN [err |-> "empty", samples |-> <<>>]
        ELSE IF num_samples <= 0 THEN [err |-> "none", samples |-> <<>>]
        ELSE IF Len(path) < 2
        THEN [err |-> "not_enough_length", samples |-> <<>>]
        ELSE IF Positive(Minus(required_len, total_len))
        THEN [err |-> "too_short", samples |-> <<>>]
        ELSE [err |-> "none",
              samples |-> [k \in 1 .. num_samples |-> SampleAt(path, k - 1, step)]]

\* err: "none", "empty", "not_enough_length" (len(path) < 2) or "too_short"
\* (total_len < required_len); the last three are ValueError in the code
sample_along_polyline(pts, start_index, num_samples, step, forward) ==
    LET path == IF forward THEN SubSeq(pts, start_index + 1, Len(pts))
                ELSE Reverse(SubSeq(pts, 1, start_index + 1))
        total_len == SumLengths(path, 1)
        required_len == <<step * (num_samples - 1), 0>>
    IN  IF pts = <<>> THEN [err |-> "empty", samples |-> <<>>]
        ELSE IF num_samples <= 0 THEN [err |-> "none", samples |-> <<>>]
        ELSE IF Len(path) < 2
        THEN [err |-> "not_enough_length", samples |-> <<>>]
        ELSE IF Positive(Minus(required_len, total_len))
        THEN [err |-> "too_short", samples |-> <<>>]
        ELSE [err |-> "none",
              samples |-> [k \in 1 .. num_samples |-> SampleAt(path, k - 1, step)]]

\* the sampler imported by strategy2: samples the given sub-path forward
sample_path_at_intervals(path, start_index, num_samples, step) ==
    sample_along_polyline(path, start_index, num_samples, step, TRUE)

(***************************************************************************)
(* Diagnostics Engine (lines 423-484)                                      *)
(***************************************************************************)
\* faulty variant of max: the smaller value
Min(a, b) == IF a <= b THEN a ELSE b

Max(a, b) == IF a >= b THEN a ELSE b

Item(severity, kind, point) ==
    [severity |-> severity, kind |-> kind, point |-> point]

\* faulty variant of the diagnostics: the "no issues" entry is always appended
DiagnoseAlwaysInfo(cfg, b, target, fh_run, uh_run, path, lowest) ==
    LET d2 == DistSq(b, target)
        warn_distance == Max(12, cfg.sample_step * 15)
        critical_distance == Max(20, cfg.sample_step * 30)
        dist_item ==
            IF d2 >= critical_distance * critical_distance
            THEN <<Item("critical", "distance", b)>>
            ELSE IF d2 >= warn_distance * warn_distance
            THEN <<Item("warning", "distance", b)>>
            ELSE <<>>
        fh_item == IF Len(fh_run) <= cfg.FH
                   THEN <<Item("warning", "FH", fh_run[1])>> ELSE <<>>
        uh_item == IF Len(uh_run) <= cfg.UH
                   THEN <<Item("warning", "UH", uh_run[1])>> ELSE <<>>
        short_item == IF Len(path) < Max(cfg.PBL, 100)
                      THEN <<Item("warning", "short_path", lowest)>> ELSE <<>>
        found == dist_item \o fh_item \o uh_item \o short_item
    IN  found \o <<Item("info", "none", NoPoint)>>

\* faulty variant of the diagnostics: a run of exactly the threshold length
\* is not reported
DiagnoseStrictBoundary(cfg, b, target, fh_run, uh_run, path, lowest) ==
    LET d2 == DistSq(b, target)
        warn_distance == Max(12, cfg.sample_step * 15)
        critical_distance == Max(20, cfg.sample_step * 30)
        dist_item ==
            IF d2 >= critical_distance * critical_distance
            THEN <<Item("critical", "distance", b)>>
            ELSE IF d2 >= warn_distance * warn_distance
            THEN <<Item("warning", "distance", b)>>
            ELSE <<>>
        fh_item == IF Len(fh_run) < cfg.FH
                   THEN <<Item("warning", "FH", fh_run[1])>> ELSE <<>>
        uh_item == IF Len(uh_run) < cfg.UH
                   THEN <<Item("warning", "UH", uh_run[1])>> ELSE <<>>
        short_item == IF Len(path) < Max(cfg.PBL, 100)
                      THEN <<Item("warning", "short_path", lowest)>> ELSE <<>>
        found == dist_item \o fh_item \o uh_item \o short_item
    IN  IF found = <<>> THEN <<Item("info", "none", NoPoint)>> ELSE found

Diagnose(cfg, b, target, fh_run, uh_run, path, lowest) ==
    LET d2 == DistSq(b, target)
        warn_distance == Max(12, cfg.sample_step * 15)
        critical_distance == Max(20, cfg.sample_step * 30)
        dist_item ==
            IF d2 >= critical_distance * critical_distance
            THEN <<Item("critical", "distance", b)>>
            ELSE IF d2 >= warn_distance * warn_distance
            THEN <<Item("warning", "distance", b)>>
            ELSE <<>>
        fh_item == IF Len(fh_run) <= cfg.FH
                   THEN <<Item("warning", "FH", fh_run[1])>> ELSE <<>>
        uh_item == IF Len(uh_run) <= cfg.UH
                   THEN <<Item("warning", "UH", uh_run[1])>> ELSE <<>>
        short_item == IF Len(path) < Max(cfg.PBL, 100)
                      THEN <<Item("warning", "short_path", lowest)>> ELSE <<>>
        found == dist_item \o fh_item \o uh_item \o short_item
    IN  IF found = <<>> THEN <<Item("info", "none", NoPoint)>> ELSE found

(***************************************************************************)
(* State machine                                                           *)
(***************************************************************************)
NoConfig == [FH |-> 0, UH |-> 0, SX |-> 0, SY |-> 0, PBL |-> 0, sample_step |-> 0]

\* no file has been read or written
NoFiles == file = <<>> /\ out_file = <<>>

\* the batch driver is not running
NoBatch ==
    /\ file_list = <<>>
    /\ next_file = 0
    /\ num_success = 0
    /\ num_fail = 0
    /\ warn_count = 0
    /\ critical_count = 0
    /\ log = <<>>

Init ==
    /\ pc = "start"
    /\ \E S \in InputSets : \E o \in ScanOrders : points = ScanList(S, o)
    /\ config = NoConfig
    /\ components = <<>>
    /\ longest_two_info = <<>>
    /\ longest_two_components = <<>>
    /\ comp1 = <<>>
    /\ comp2 = <<>>
    /\ turtle_component = <<>>
    /\ turtle_lowest_point = NoPoint
    /\ tlsp = NoPoint
    /\ turtle_path = <<>>
    /\ front_head = <<>>
    /\ upper_head = <<>>
    /\ mv = NoPoint
    /\ mv_shifted = NoPoint
    /\ bsp = NoPoint
    /\ sampling_path = <<>>
    /\ bending_points = <<>>
    /\ diagnostics = <<>>
    /\ error = "none"
    /\ NoFiles
    /\ NoBatch

\* lines 371-374
BuildComponents ==
    /\ pc = "start"
    /\ components' = find_connected_components(points)
    /\ longest_two_info' = summarize_longest_two_lines(components')
    /\ longest_two_components' = pick_longest_components(components', 2)
    /\ pc' = "components"
    /\ UNCHANGED <<points, config, comp1, comp2, turtle_component,
                   turtle_lowest_point, tlsp, turtle_path, front_head,
                   upper_head, mv, mv_shifted, bsp, sampling_path,
                   bending_points, diagnostics, error>>
    /\ UNCHANGED fileVars
    /\ UNCHANGED batchVars

\* lines 377-381
SelectContours ==
    /\ pc = "components"
    /\ IF TooFewComponents(components)
       THEN /\ pc' = "failed"
            /\ error' = "insufficient_components"
            /\ UNCHANGED <<comp1, comp2, turtle_component, turtle_lowest_point>>
       ELSE /\ comp1' = pick_two_longest_lines(components)[1]
            /\ comp2' = pick_two_longest_lines(components)[2]
            /\ turtle_component' = find_turtle_line(comp1', comp2')
            /\ turtle_lowest_point' = MaxByY(turtle_component')
            /\ pc' = "selected"
            /\ UNCHANGED error
    /\ UNCHANGED <<points, config, components, longest_two_info,
                   longest_two_components, tlsp, turtle_path, front_head,
                   upper_head, mv, mv_shifted, bsp, sampling_path,
                   bending_points, diagnostics>>
    /\ UNCHANGED fileVars
    /\ UNCHANGED batchVars

\* line 384
OrderPath ==
    /\ pc = "selected"
    /\ LET r == find_tlsp(turtle_component)
       IN  IF r.ok
           THEN /\ tlsp' = r.tlsp
                /\ turtle_path' = r.path
                /\ pc' = "ordered"
                /\ UNCHANGED error
           ELSE /\ pc' = "failed"
                /\ error' = "path_too_short"
                /\ UNCHANGED <<tlsp, turtle_path>>
    /\ UNCHANGED <<points, config, components, longest_two_info,
                   longest_two_components, comp1, comp2, turtle_component,
                   turtle_lowest_point, front_head, upper_head, mv,
                   mv_shifted, bsp, sampling_path, bending_points,
                   diagnostics>>
    /\ UNCHANGED fileVars
    /\ UNCHANGED batchVars

\* lines 387-389; FH and UH are read from the configuration here
DetectRuns ==
    /\ pc = "ordered"
    /\ \E fh \in Thresholds, uh \in Thresholds :
          LET r == find_front_head_and_upper_head(turtle_path, fh, uh)
          IN  /\ config' = [config EXCEPT !.FH = fh, !.UH = uh]
              /\ IF r.err = "none"
                 THEN /\ front_head' = r.front_head
                      /\ upper_head' = r.upper_head
                      /\ pc' = "runs"
                      /\ UNCHANGED error
                 ELSE /\ pc' = "failed"
                      /\ error' = r.err
                      /\ UNCHANGED <<front_head, upper_head>>
    /\ UNCHANGED <<points, components, longest_two_info,
                   longest_two_components, comp1, comp2, turtle_component,
                   turtle_lowest_point, tlsp, turtle_path, mv, mv_shifted,
                   bsp, sampling_path, bending_points, diagnostics>>
    /\ UNCHANGED fileVars
    /\ UNCHANGED batchVars

\* lines 392-416; SX and SY are read from the configuration here
PlaceMarker ==
    /\ pc = "runs"
    /\ \E s \in ShiftPairs :
          /\ config' = [config EXCEPT !.SX = s[1], !.SY = s[2]]
          /\ mv' = compute_mv(front_head, upper_head)
          /\ mv_shifted' = <<mv'[1] + s[1], mv'[2] + s[2]>>
          /\ bsp' = find_bsp(turtle_path, mv_shifted')
          /\ sampling_path' = SamplingPath(turtle_path, bsp', tlsp)
    /\ pc' = "marker"
    /\ UNCHANGED <<points, components, longest_two_info,
                   longest_two_components, comp1, comp2, turtle_component,
                   turtle_lowest_point, tlsp, turtle_path, front_head,
                   upper_head, bending_points, diagnostics, error>>
    /\ UNCHANGED fileVars
    /\ UNCHANGED batchVars

\* lines 419-421; PBL and sample_step are read from the configuration here
Sample ==
    /\ pc = "marker"
    /\ \E pbl \in PBLs, step \in Steps :
          LET r == sample_path_at_intervals(sampling_path, 0, pbl, step)
          IN  /\ config' = [config EXCEPT !.PBL = pbl, !.sample_step = step]
              /\ IF r.err = "none"
                 THEN /\ bending_points' = r.samples
                      /\ pc' = "sampled"
                      /\ UNCHANGED error
                 ELSE /\ pc' = "failed"
                      /\ error' = r.err
                      /\ UNCHANGED bending_points
    /\ UNCHANGED <<points, components, longest_two_info,
                   longest_two_components, comp1, comp2, turtle_component,
                   turtle_lowest_point, tlsp, turtle_path, front_head,
                   upper_head, mv, mv_shifted, bsp, sampling_path,
                   diagnostics>>
    /\ UNCHANGED fileVars
    /\ UNCHANGED batchVars

\* lines 423-500: the diagnostics, then the Strategy2Result is returned
Finish ==
    /\ pc = "sampled"
    /\ diagnostics' = Diagnose(config, bsp, mv_shifted, front_head, upper_head,
                               turtle_path, turtle_lowest_point)
    /\ pc' = "done"
    /\ UNCHANGED <<points, config, components, longest_two_info,
                   longest_two_components, comp1, comp2, turtle_component,
                   turtle_lowest_point, tlsp, turtle_path, front_head,
                   upper_head, mv, mv_shifted, bsp, sampling_path,
                   bending_points, error>>
    /\ UNCHANGED fileVars
    /\ UNCHANGED batchVars

Next ==
    \/ BuildComponents
    \/ SelectContours
    \/ OrderPath
    \/ DetectRuns
    \/ PlaceMarker
    \/ Sample
    \/ Finish

Spec == Init /\ [][Next]_vars

(***************************************************************************)
(* find_tlsp called on its own: the starting states also include every     *)
(* point list of ComponentSets as the argument, connected or not.          *)
(***************************************************************************)
InitTlsp ==
    /\ pc = "selected"
    /\ \E S \in ComponentSets : \E o \in ScanOrders :
          turtle_component = ScanList(S, o)
    /\ turtle_lowest_point = MaxByY(turtle_component)
    /\ points = <<>>
    /\ config = NoConfig
    /\ components = <<>>
    /\ longest_two_info = <<>>
    /\ longest_two_components = <<>>
    /\ comp1 = <<>>
    /\ comp2 = <<>>
    /\ tlsp = NoPoint
    /\ turtle_path = <<>>
    /\ front_head = <<>>
    /\ upper_head = <<>>
    /\ mv = NoPoint
    /\ mv_shifted = NoPoint
    /\ bsp = NoPoint
    /\ sampling_path = <<>>
    /\ bending_points = <<>>
    /\ diagnostics = <<>>
    /\ error = "none"
    /\ NoFiles
    /\ NoBatch

NextTlsp == BuildComponents \/ SelectContours \/ OrderPath

TlspSpec == (Init \/ InitTlsp) /\ [][NextTlsp]_vars

(***************************************************************************)
(* Long contours.  The diagnostics compare the path length with 100, which *)
(* no contour of the small grid reaches.  These starting states are the    *)
(* states right after the path orderer for an L-shaped turtle line: a      *)
(* vertical stroke of v points at x = 0 going up from TLSP = (0, v), then a *)
(* horizontal stroke of h points at y = 0, with a one-point second contour *)
(* to the left of it.  The vertical stroke is the long one.                *)
(***************************************************************************)
ShortPathLimit == 100

LPath(v, h) ==
    [i \in 1 .. v + h |-> IF i <= v THEN <<0, v + 1 - i>> ELSE <<i - v, 0>>]

LongShapes ==
    {LPath(n - h, h) : h \in 1 .. MaxThreshold + 1,
                       n \in ShortPathLimit - 1 .. ShortPathLimit + 1}

InitLong ==
    /\ pc = "ordered"
    /\ turtle_path \in LongShapes
    /\ turtle_component = turtle_path
    /\ tlsp = turtle_path[1]
    /\ turtle_lowest_point = MaxByY(turtle_component)
    /\ comp1 = turtle_component
    /\ comp2 = <<<<0 - 2, 0>>>>
    /\ components = <<comp1, comp2>>
    /\ points = comp1 \o comp2
    /\ longest_two_info = summarize_longest_two_lines(components)
    /\ longest_two_components = pick_longest_components(components, 2)
    /\ config = NoConfig
    /\ front_head = <<>>
    /\ upper_head = <<>>
    /\ mv = NoPoint
    /\ mv_shifted = NoPoint
    /\ bsp = NoPoint
    /\ sampling_path = <<>>
    /\ bending_points = <<>>
    /\ diagnostics = <<>>
    /\ error = "none"
    /\ NoFiles
    /\ NoBatch

ResultSpec == (Init \/ InitLong) /\ [][Next]_vars

(***************************************************************************)
(* sample_along_polyline called on its own.  The polyline starts at the    *)
(* origin and continues by steps to the right, downward, diagonally, or    *)
(* not at all (a repeated point gives a zero-length segment); the call     *)
(* picks a start index, a direction, a sample count and a step.  The local *)
(* variable path of the function is kept in sampling_path.                 *)
(***************************************************************************)
MaxPolyline == 4

Directions == {<<1, 0>>, <<0, 1>>, <<1, 1>>, <<0, 0>>}

RECURSIVE PolylineFrom(_, _)
PolylineFrom(start, ds) ==
    IF ds = <<>> THEN <<start>>
    ELSE <<start>> \o PolylineFrom(<<start[1] + ds[1][1], start[2] + ds[1][2]>>,
                                   Tail(ds))

Polylines ==
    {<<>>} \cup {PolylineFrom(<<0, 0>>, ds) :
                    ds \in UNION {[1 .. n -> Directions] : n \in 0 .. MaxPolyline - 1}}

InitSampler ==
    /\ pc = "call_sampler"
    /\ turtle_path \in Polylines
    /\ points = <<>>
    /\ config = NoConfig
    /\ components = <<>>
    /\ longest_two_info = <<>>
    /\ longest_two_components = <<>>
    /\ comp1 = <<>>
    /\ comp2 = <<>>
    /\ turtle_component = <<>>
    /\ turtle_lowest_point = NoPoint
    /\ tlsp = NoPoint
    /\ front_head = <<>>
    /\ upper_head = <<>>
    /\ mv = NoPoint
    /\ mv_shifted = NoPoint
    /\ bsp = NoPoint
    /\ sampling_path = <<>>
    /\ bending_points = <<>>
    /\ diagnostics = <<>>
    /\ error = "none"
    /\ NoFiles
    /\ NoBatch

\* geometry.py lines 57-135, one call
CallSampler ==
    /\ pc = "call_sampler"
    /\ \E start_index \in 0 .. Max(0, Len(turtle_path) - 1), forward \in BOOLEAN,
          num_samples \in 0 .. MaxPBL, step \in Steps :
          LET r == sample_along_polyline(turtle_path, start_index, num_samples,
                                         step, forward)
          IN  /\ config' = [config EXCEPT !.PBL = num_samples,
                                          !.sample_step = step]
              /\ sampling_path' =
                    IF turtle_path = <<>> \/ num_samples <= 0 THEN <<>>
                    ELSE IF forward
                    THEN SubSeq(turtle_path, start_index + 1, Len(turtle_path))
                    ELSE Reverse(SubSeq(turtle_path, 1, start_index + 1))
              /\ IF r.err = "none"
                 THEN /\ bending_points' = r.samples
                      /\ pc' = "returned"
                      /\ UNCHANGED error
                 ELSE /\ pc' = "raised"
                      /\ error' = r.err
                      /\ UNCHANGED bending_points
    /\ UNCHANGED <<points, components, longest_two_info,
                   longest_two_components, comp1, comp2, turtle_component,
                   turtle_lowest_point, tlsp, turtle_path, front_head,
                   upper_head, mv, mv_shifted, bsp, diagnostics>>
    /\ UNCHANGED fileVars
    /\ UNCHANGED batchVars

NextSampler == Next \/ CallSampler

SamplerSpec == (Init \/ InitSampler) /\ [][NextSampler]_vars

(***************************************************************************)
(* TXT files.  A file is a list of lines; a line is blank, a comment       *)
(* (starts with #) or a list of fields (split at commas, or at white space *)
(* when the line has no comma).  A field is a number, written <<u, v>> for *)
(* (u + v * sqrt(2)) / 2 as the sample coordinates are, or a word that     *)
(* float() rejects.  Writing a float with an f-string and reading it back  *)
(* with float() gives the same float, so a written number is its value.    *)
(***************************************************************************)
MaxLines == 3

Word == <<>>

Blank == [kind |-> "blank", parts |-> <<>>]

Comment == [kind |-> "comment", parts |-> <<>>]

Fields(parts) == [kind |-> "fields", parts |-> parts]

Number(n) == <<2 * n, 0>>

\* largest k with k * k <= n
Isqrt(n) == CHOOSE k \in 0 .. n : k * k <= n /\ (k + 1) * (k + 1) > n

\* int(round(x)) for x = (u + v * sqrt(2)) / 2; Python rounds a tie to the
\* even neighbour
Round(x) ==
    LET u == x[1]
        v == x[2]
        w == IF v >= 0 THEN Isqrt(2 * v * v) ELSE 0 - Isqrt(2 * v * v) - 1
    IN  IF v = 0
        THEN IF u % 2 = 0 THEN u \div 2
             ELSE IF ((u - 1) \div 2) % 2 = 0 THEN (u - 1) \div 2
             ELSE (u + 1) \div 2
        ELSE (u + w + 1) \div 2

\* lines 74-97: the points of lines[i ..]
RECURSIVE ParseLines(_, _)
ParseLines(lines, i) ==
    IF i > Len(lines) THEN <<>>
    ELSE LET line == lines[i]
             rest == ParseLines(lines, i + 1)
         IN  IF line.kind # "fields" THEN rest
             ELSE IF Len(line.parts) < 2 THEN rest
             ELSE IF line.parts[1] = Word \/ line.parts[2] = Word THEN rest
             ELSE <<<<Round(line.parts[1]), Round(line.parts[2])>>>> \o rest

\* ok is FALSE when Strategy2Error("No valid coordinates ...") is raised
parse_txt_points(lines) ==
    LET pts == ParseLines(lines, 1)
    IN  [ok |-> pts # <<>>, points |-> pts]

\* lines 516-519: the header, then x,y,index for index 1, 2, ...
save_result_points_txt(samples) ==
    <<Comment>> \o [k \in 1 .. Len(samples) |->
                       Fields(<<samples[k][1], samples[k][2], Number(k)>>)]

\* the lines of the input files explored: coordinates 0, 0.5 and 1
FileNumbers == {<<0, 0>>, <<1, 0>>, <<2, 0>>}

FileLines ==
    {Blank, Comment, Fields(<<Number(1)>>),
     Fields(<<Number(1), Number(1), Number(1)>>),
     Fields(<<Word, Number(1)>>), Fields(<<Number(1), Word>>)}
        \cup {Fields(<<x, y>>) : x \in FileNumbers, y \in FileNumbers}

Files == UNION {[1 .. n -> FileLines] : n \in 0 .. MaxLines}

InitFile ==
    /\ pc = "file"
    /\ file \in Files
    /\ out_file = <<>>
    /\ points = <<>>
    /\ config = NoConfig
    /\ components = <<>>
    /\ longest_two_info = <<>>
    /\ longest_two_components = <<>>
    /\ comp1 = <<>>
    /\ comp2 = <<>>
    /\ turtle_component = <<>>
    /\ turtle_lowest_point = NoPoint
    /\ tlsp = NoPoint
    /\ turtle_path = <<>>
    /\ front_head = <<>>
    /\ upper_head = <<>>
    /\ mv = NoPoint
    /\ mv_shifted = NoPoint
    /\ bsp = NoPoint
    /\ sampling_path = <<>>
    /\ bending_points = <<>>
    /\ diagnostics = <<>>
    /\ error = "none"
    /\ NoBatch

\* strategy2.py lines 64-102, one call
ParseFile ==
    /\ pc = "file"
    /\ LET r == parse_txt_points(file)
       IN  IF r.ok
           THEN /\ points' = r.points
                /\ pc' = "parsed"
                /\ UNCHANGED error
           ELSE /\ pc' = "failed"
                /\ error' = "no_valid_coordinates"
                /\ UNCHANGED points
    /\ UNCHANGED <<config, components, longest_two_info,
                   longest_two_components, comp1, comp2, turtle_component,
                   turtle_lowest_point, tlsp, turtle_path, front_head,
                   upper_head, mv, mv_shifted, bsp, sampling_path,
                   bending_points, diagnostics>>
    /\ UNCHANGED fileVars
    /\ UNCHANGED batchVars

IngestSpec == InitFile /\ [][ParseFile]_vars

\* strategy2.py lines 509-519: the bending points of a returned result are
\* written to the output file
Save ==
    /\ pc = "done"
    /\ out_file' = save_result_points_txt(bending_points)
    /\ pc' = "saved"
    /\ UNCHANGED <<points, config, components, longest_two_info,
                   longest_two_components, comp1, comp2, turtle_component,
                   turtle_lowest_point, tlsp, turtle_path, front_head,
                   upper_head, mv, mv_shifted, bsp, sampling_path,
                   bending_points, diagnostics, error, file>>
    /\ UNCHANGED batchVars

NextSave == Next \/ Save

SaveSpec == Init /\ [][NextSave]_vars

(***************************************************************************)
(* Batch driver (app.py, MainWindow.on_run).  What happens to a file inside *)
(* the try block is an input: the step at which an exception is raised     *)
(* (none when every step succeeds), the class of the exception, and the    *)
(* severities of the diagnostics of the result.  The log is the list of    *)
(* <<event, file number>> pairs.                                           *)
(***************************************************************************)
MaxFiles == 3

TrySteps == {"parse_txt_points", "run_strategy2_on_file",
             "save_result_points_txt", "visualize_result"}

FileOutcomes ==
    {[fails_at |-> "none", raises |-> "none", severities |-> sev] :
        sev \in {<<"info">>, <<"critical", "warning">>}}
    \cup {[fails_at |-> st, raises |-> ex, severities |-> <<>>] :
            st \in TrySteps, ex \in {"Strategy2Error", "Exception"}}

FileLists == UNION {[1 .. n -> FileOutcomes] : n \in 0 .. MaxFiles}

\* number of entries of sevs equal to sev
CountOf(sevs, sev) == Cardinality({k \in 1 .. Len(sevs) : sevs[k] = sev})

\* faulty variant of the handlers: only the domain error is handled
CaughtDomainOnly(f) ==
    IF f.fails_at = "none" THEN "none"
    ELSE IF f.raises = "Strategy2Error" THEN "Strategy2Error"
    ELSE "uncaught"

\* lines 450, 499, 506: the except clause that handles what the try block
\* raised ("none" when it ran to its end)
Caught(f) ==
    IF f.fails_at = "none" THEN "none"
    ELSE IF f.raises = "Strategy2Error" THEN "Strategy2Error"
    ELSE "Exception"

InitBatch ==
    /\ pc = "on_run"
    /\ file_list \in FileLists
    /\ next_file = 0
    /\ num_success = 0
    /\ num_fail = 0
    /\ warn_count = 0
    /\ critical_count = 0
    /\ log = <<>>
    /\ points = <<>>
    /\ config = NoConfig
    /\ components = <<>>
    /\ longest_two_info = <<>>
    /\ longest_two_components = <<>>
    /\ comp1 = <<>>
    /\ comp2 = <<>>
    /\ turtle_component = <<>>
    /\ turtle_lowest_point = NoPoint
    /\ tlsp = NoPoint
    /\ turtle_path = <<>>
    /\ front_head = <<>>
    /\ upper_head = <<>>
    /\ mv = NoPoint
    /\ mv_shifted = NoPoint
    /\ bsp = NoPoint
    /\ sampling_path = <<>>
    /\ bending_points = <<>>
    /\ diagnostics = <<>>
    /\ error = "none"
    /\ NoFiles

pipelineVars ==
    <<points, config, components, longest_two_info, longest_two_components,
      comp1, comp2, turtle_component, turtle_lowest_point, tlsp, turtle_path,
      front_head, upper_head, mv, mv_shifted, bsp, sampling_path,
      bending_points, diagnostics, error>>

\* lines 408-441: nothing to do without files or without an output folder;
\* otherwise the counters are reset and the loop starts
StartRun ==
    /\ pc = "on_run"
    /\ \E makedirs_ok \in BOOLEAN :
          IF Len(file_list) = 0 \/ ~makedirs_ok
          THEN pc' = "on_run_returned" /\ UNCHANGED log
          ELSE pc' = "loop" /\ log' = Append(log, <<"run_started", Len(file_list)>>)
    /\ next_file' = 0
    /\ num_success' = 0
    /\ num_fail' = 0
    /\ warn_count' = 0
    /\ critical_count' = 0
    /\ UNCHANGED <<file_list, pipelineVars, fileVars>>

\* lines 443-512: one iteration of the loop over the file list
ProcessFile ==
    /\ pc = "loop"
    /\ next_file < Len(file_list)
    /\ LET f == file_list[next_file + 1]
           started == Append(log, <<"processing", next_file + 1>>)
       IN  IF Caught(f) = "none"
           THEN /\ warn_count' = warn_count + CountOf(f.severities, "warning")
                /\ critical_count' =
                      critical_count + CountOf(f.severities, "critical")
                /\ log' = Append(started, <<"success", next_file + 1>>)
                /\ num_success' = num_success + 1
                /\ next_file' = next_file + 1
                /\ UNCHANGED <<pc, num_fail>>
           ELSE IF Caught(f) = "Strategy2Error"
           THEN /\ log' = Append(started, <<"failed", next_file + 1>>)
                /\ num_fail' = num_fail + 1
                /\ next_file' = next_file + 1
                /\ UNCHANGED <<pc, num_success, warn_count, critical_count>>
           ELSE IF Caught(f) = "Exception"
           THEN /\ log' = Append(started, <<"error", next_file + 1>>)
                /\ num_fail' = num_fail + 1
                /\ next_file' = next_file + 1
                /\ UNCHANGED <<pc, num_success, warn_count, critical_count>>
           ELSE \* an exception no clause handles propagates out of on_run
                /\ log' = started
                /\ pc' = "on_run_raised"
                /\ UNCHANGED <<next_file, num_success, num_fail, warn_count,
                               critical_count>>
    /\ UNCHANGED <<file_list, pipelineVars, fileVars>>

\* lines 514-523: the loop is over, the totals are reported
FinishRun ==
    /\ pc = "loop"
    /\ next_file = Len(file_list)
    /\ pc' = "batch_done"
    /\ log' = Append(log, <<"complete", num_success + num_fail>>)
    /\ UNCHANGED <<file_list, next_file, num_success, num_fail, warn_count,
                   critical_count, pipelineVars, fileVars>>

NextBatch == StartRun \/ ProcessFile \/ FinishRun

BatchSpec == InitBatch /\ [][NextBatch]_vars

(***************************************************************************)
(* Properties                                                              *)
(***************************************************************************)
\* the stages at which the contour selector has run and succeeded
AfterSelect == {"selected", "ordered", "runs", "marker", "sampled", "done"}

\* C1: the contour selector fails with the "insufficient components" error
\* exactly when the component list has fewer than two components; then no
\* result is produced, and with two or more components this error is never
\* raised.
C1_InsufficientComponents ==
    /\ pc \in AfterSelect => Len(components) >= 2
    /\ error = "insufficient_components" => pc = "failed" /\ Len(components) < 2
    /\ (pc = "failed" /\ Len(components) < 2) => error = "insufficient_components"
    /\ pc = "done" => Len(components) >= 2

C1_Witness ==
    pc = "failed" /\ error = "insufficient_components" /\ Len(components) = 1

\* position of a selected component in the component list (components are
\* non-empty and pairwise disjoint, so the position is unique)
CompIndex(c) == CHOOSE i \in 1 .. Len(components) : components[i] = c

\* component i ranks ahead of component j: more points, or as many points and
\* earlier in the list
RanksAhead(i, j) ==
    \/ Len(components[i]) > Len(components[j])
    \/ (Len(components[i]) = Len(components[j]) /\ i < j)

\* C2: pick_two_longest_lines returns the two components that rank first by
\* point count, A before B, a component appearing earlier in the list ranking
\* ahead of a later one with the same point count.
C2_StableTopTwo ==
    pc = "selected" =>
        LET a == CompIndex(comp1)
            b == CompIndex(comp2)
        IN  /\ RanksAhead(a, b)
            /\ \A k \in 1 .. Len(components) : k \notin {a, b} => RanksAhead(b, k)

\* largest y of a component
LowestY(c) == CHOOSE y \in {q[2] : q \in Range(c)} : \A q \in Range(c) : q[2] <= y

\* C3: the turtle line is the selected component whose largest y is strictly
\* larger, and A (comp1) when both are equal; it is always A or B.
C3_TurtleLine ==
    pc = "selected" =>
        /\ turtle_component \in {comp1, comp2}
        /\ LowestY(comp2) > LowestY(comp1) => turtle_component = comp2
        /\ LowestY(comp1) >= LowestY(comp2) => turtle_component = comp1

C3_Witness ==
    /\ pc = "selected"
    /\ comp1 # comp2
    /\ LowestY(comp1) = LowestY(comp2)
    /\ turtle_component = comp1

\* the points of S reachable from R by 8-neighbour steps inside S
RECURSIVE Closure(_, _)
Closure(R, S) ==
    LET R2 == R \cup {q \in S : \E r \in R : Adjacent(r, q)}
    IN  IF R2 = R THEN R ELSE Closure(R2, S)

Connected(S) == S = {} \/ Closure({CHOOSE q \in S : TRUE}, S) = S

\* C4: the components partition the input points: pairwise disjoint, no
\* point listed twice, their union is the input set, each is internally
\* 8-connected, and no point of one is an 8-neighbour of a point of another.
C4_Partition ==
    pc = "components" =>
        /\ \A i \in 1 .. Len(components) :
              /\ components[i] # <<>>
              /\ NoRepeat(components[i])
              /\ Connected(Range(components[i]))
        /\ \A i, j \in 1 .. Len(components) : i # j =>
              /\ Range(components[i]) \cap Range(components[j]) = {}
              /\ \A q \in Range(components[i]), r \in Range(components[j]) :
                    ~Adjacent(q, r)
        /\ UNION {Range(components[i]) : i \in 1 .. Len(components)} = Range(points)

C4_Witness ==
    /\ pc = "components"
    /\ Len(components) >= 2
    /\ \E i \in 1 .. Len(components) :
          \E q, r \in Range(components[i]) : q[1] # r[1] /\ q[2] # r[2]

(***************************************************************************)
(* _build_ordered_path called on its own, one loop iteration per step.     *)
(* turtle_component holds the component, tlsp the start point and          *)
(* turtle_path the path built so far; the visited set of the code is       *)
(* always the set of the points of the path.  The start point is a point   *)
(* of the component or a point outside of it (next to the grid).           *)
(***************************************************************************)
MaxWalkPoints == 4

Outside == <<GridW, 0>>

WalkSets ==
    {S \in SUBSET Grid :
        S # {} /\ Cardinality(S) <= MaxWalkPoints /\ Anchored(S)}

\* line 283
UnvisitedNeighbors(path, point_set) ==
    SelectSeq(get_neighbors(Last(path), point_set),
              LAMBDA n : n \notin Range(path))

\* faulty variant of the choice of the next point: the direction is ignored
next_point_first(path, point_set) ==
    UnvisitedNeighbors(path, point_set)[1]

\* lines 293-317
next_point(path, point_set) ==
    LET current == Last(path)
        unvisited_neighbors == UnvisitedNeighbors(path, point_set)
        prev_dir == <<path[Len(path)][1] - path[Len(path) - 1][1],
                      path[Len(path)][2] - path[Len(path) - 1][2]>>
        same_dir_neighbors ==
            SelectSeq(unvisited_neighbors,
                      LAMBDA n : <<n[1] - current[1], n[2] - current[2]>> = prev_dir)
    IN  IF Len(unvisited_neighbors) = 1 THEN unvisited_neighbors[1]
        ELSE IF Len(path) >= 2
        THEN IF same_dir_neighbors # <<>> THEN same_dir_neighbors[1]
             ELSE unvisited_neighbors[1]
        ELSE unvisited_neighbors[1]

\* lines 275-278
InitWalk ==
    /\ pc = "walking"
    /\ \E S \in WalkSets : turtle_component = ScanList(S, "rows")
    /\ tlsp \in Range(turtle_component) \cup {Outside}
    /\ turtle_path = <<tlsp>>
    /\ turtle_lowest_point = NoPoint
    /\ points = <<>>
    /\ config = NoConfig
    /\ components = <<>>
    /\ longest_two_info = <<>>
    /\ longest_two_components = <<>>
    /\ comp1 = <<>>
    /\ comp2 = <<>>
    /\ front_head = <<>>
    /\ upper_head = <<>>
    /\ mv = NoPoint
    /\ mv_shifted = NoPoint
    /\ bsp = NoPoint
    /\ sampling_path = <<>>
    /\ bending_points = <<>>
    /\ diagnostics = <<>>
    /\ error = "none"
    /\ NoFiles
    /\ NoBatch

\* lines 281-321: one iteration of the while loop
WalkStep ==
    /\ pc = "walking"
    /\ IF UnvisitedNeighbors(turtle_path, Range(turtle_component)) = <<>>
       THEN /\ pc' = "walked"
            /\ UNCHANGED turtle_path
       ELSE /\ turtle_path' =
                  Append(turtle_path,
                         next_point(turtle_path, Range(turtle_component)))
            /\ UNCHANGED pc
    /\ UNCHANGED <<points, config, components, longest_two_info,
                   longest_two_components, comp1, comp2, turtle_component,
                   turtle_lowest_point, tlsp, front_head, upper_head, mv,
                   mv_shifted, bsp, sampling_path, bending_points,
                   diagnostics, error>>
    /\ UNCHANGED fileVars
    /\ UNCHANGED batchVars

NextWalk == WalkStep

\* the loop has no blocking statement: an iteration that can run does run
WalkSpec == InitWalk /\ [][NextWalk]_vars /\ WF_vars(WalkStep)

(***************************************************************************)
(* Input file list of the main window.  A path is a number; the file       *)
(* dialog returns a list of distinct paths, here the first n paths for a   *)
(* few n around the limit (none when the dialog is cancelled).  error      *)
(* holds the message box the last handler showed.  The log pane, to which  *)
(* the handlers only append text, is left out.                             *)
(***************************************************************************)
FileLimit == 500

MaxExtraFiles == 2

Block(n) == [i \in 1 .. n |-> i]

DialogSelections ==
    {Block(n) : n \in {0, FileLimit - 1, FileLimit + MaxExtraFiles}}

\* the path chosen in the save dialog of the example generator: a file that
\* is not among the paths of the file dialog
ExamplePaths == {0}

\* the selected rows lo .. hi of a list of n rows: every row but the last,
\* or every row but the first
RowSelections(n) == {<<1, n - 1>>, <<2, n>>}

InitGui ==
    /\ pc = "idle"
    /\ NoBatch
    /\ points = <<>>
    /\ config = NoConfig
    /\ components = <<>>
    /\ longest_two_info = <<>>
    /\ longest_two_components = <<>>
    /\ comp1 = <<>>
    /\ comp2 = <<>>
    /\ turtle_component = <<>>
    /\ turtle_lowest_point = NoPoint
    /\ tlsp = NoPoint
    /\ turtle_path = <<>>
    /\ front_head = <<>>
    /\ upper_head = <<>>
    /\ mv = NoPoint
    /\ mv_shifted = NoPoint
    /\ bsp = NoPoint
    /\ sampling_path = <<>>
    /\ bending_points = <<>>
    /\ diagnostics = <<>>
    /\ error = "none"
    /\ NoFiles

guiUnchanged ==
    <<pc, points, config, components, longest_two_info,
      longest_two_components, comp1, comp2, turtle_component,
      turtle_lowest_point, tlsp, turtle_path, front_head, upper_head, mv,
      mv_shifted, bsp, sampling_path, bending_points, diagnostics, fileVars,
      next_file, num_success, num_fail, warn_count, critical_count, log>>

\* lines 372-389: paths already listed are skipped; the loop stops with a
\* warning at the first new path met when the list holds 500 items
on_add_files ==
    /\ pc = "idle"
    /\ \E files \in DialogSelections :
          LET current == Range(file_list)
              new == SelectSeq(files, LAMBDA path : path \notin current)
              room == Max(0, FileLimit - Len(file_list))
              added == SubSeq(new, 1, Min(Len(new), room))
          IN  /\ file_list' = file_list \o added
              /\ error' = IF Len(new) > room THEN "limit_exceeded" ELSE "none"
    /\ UNCHANGED guiUnchanged

\* lines 391-394
on_remove_selected ==
    /\ pc = "idle"
    /\ file_list # <<>>
    /\ \E rows \in RowSelections(Len(file_list)) :
          file_list' = SubSeq(file_list, 1, rows[1] - 1)
                          \o SubSeq(file_list, rows[2] + 1, Len(file_list))
    /\ error' = "none"
    /\ UNCHANGED guiUnchanged

\* line 70: the Clear All button is connected to file_list.clear
clear_files ==
    /\ pc = "idle"
    /\ file_list' = <<>>
    /\ error' = "none"
    /\ UNCHANGED guiUnchanged

\* the number of items of the list that the example generator added
ExampleItems(list) == Len(list) - Cardinality(Range(list) \ ExamplePaths)

\* lines 525-541: the saved example is added to the list; the model stops
\* generating examples when the list holds MaxExtraFiles of them
on_generate_example ==
    /\ pc = "idle"
    /\ ExampleItems(file_list) < MaxExtraFiles
    /\ \E path \in ExamplePaths, saved \in BOOLEAN :
          IF saved
          THEN /\ file_list' = Append(file_list, path)
               /\ error' = "none"
          ELSE /\ error' = "example_generation_failed"
               /\ UNCHANGED file_list
    /\ UNCHANGED guiUnchanged

NextGui ==
    on_add_files \/ on_remove_selected \/ clear_files \/ on_generate_example

GuiSpec == InitGui /\ [][NextGui]_vars

(***************************************************************************)
(* Each stage leaves the results of the earlier stages unchanged, so a     *)
(* property of a stage's result is stated at the state right after it.     *)
(***************************************************************************)
\* C5: the ordered path returned by find_tlsp has no repeated point, lies in
\* the component, and steps only between 8-neighbours, whether it comes from
\* the BFS reconstruction or from the greedy fallback walk.
C5_PathWellFormed ==
    pc = "ordered" =>
        /\ NoRepeat(turtle_path)
        /\ Range(turtle_path) \subseteq Range(turtle_component)
        /\ \A i \in 1 .. Len(turtle_path) - 1 :
              Adjacent(turtle_path[i], turtle_path[i + 1])

\* the greedy fallback walk produced the returned path
C5_Witness ==
    /\ pc = "ordered"
    /\ Len(BfsPathOf(turtle_component, tlsp)) < 2
    /\ Len(turtle_path) >= 3

\* C6: in every returned result TLSP is the first element of the turtle path
\* and BSP is a member of it.
C6_TlspFirstBspMember ==
    pc = "done" =>
        /\ turtle_path[1] = tlsp
        /\ bsp \in Range(turtle_path)

C6_Witness ==
    pc = "done" /\ bsp # tlsp /\ Len(turtle_path) >= 3

\* number of 8-neighbours of q inside component c
Degree(q, c) == Cardinality({r \in Range(c) : Adjacent(q, r)})

EndpointIdx(c) == {i \in 1 .. Len(c) : Degree(c[i], c) = 1}

\* C7: when the turtle component has degree-1 points, TLSP is the first
\* degree-1 point (in component order) whose y is largest among the degree-1
\* points, whatever the y of the other points.
C7_TlspEndpoint ==
    (pc = "ordered" /\ EndpointIdx(turtle_component) # {}) =>
        LET c == turtle_component
            E == EndpointIdx(c)
            best == CHOOSE i \in E :
                        /\ \A j \in E : c[j][2] <= c[i][2]
                        /\ \A j \in E : j < i => c[j][2] < c[i][2]
        IN  tlsp = c[best]

\* some point that is not an endpoint lies lower than every endpoint
C7_Witness ==
    /\ pc = "ordered"
    /\ EndpointIdx(turtle_component) # {}
    /\ \E q \in Range(turtle_component) : q[2] > tlsp[2]

\* C8: every point of the UH run lies at a path index strictly greater than
\* the index of the last point of the FH run.
C8_UhAfterFh ==
    pc = "runs" =>
        \A q \in Range(upper_head) :
            /\ q \in Range(turtle_path)
            /\ IndexOf(turtle_path, q) > IndexOf(turtle_path, Last(front_head))

C8_Witness ==
    /\ pc = "runs"
    /\ Len(front_head) >= 2
    /\ IndexOf(turtle_path, upper_head[1]) = IndexOf(turtle_path, Last(front_head)) + 1

\* some stretch of at least n consecutive points of path shares one coordinate
HasRun(path, n, axis) ==
    \E i \in 1 .. Len(path) : \E j \in i .. Len(path) :
        /\ j - i + 1 >= n
        /\ \A k \in i .. j : path[k][axis] = path[i][axis]

\* the part of the turtle path after the last point of the detected FH run
AfterFh ==
    LET fh_run == find_first_vertical_run(turtle_path, config.FH)
    IN  SubSeq(turtle_path, IndexOf(turtle_path, Last(fh_run)) + 1,
               Len(turtle_path))

\* C9: the detector fails naming FH exactly when the path has no qualifying
\* vertical run, fails naming UH exactly when FH exists but the part of the
\* path after FH's last point has no qualifying horizontal run, and returns
\* two non-empty runs exactly when both exist.
C9_RunErrors ==
    /\ error = "FH" => ~HasRun(turtle_path, config.FH, 1)
    /\ error = "UH" => /\ HasRun(turtle_path, config.FH, 1)
                       /\ ~HasRun(AfterFh, config.UH, 2)
    /\ pc = "runs" => /\ front_head # <<>>
                    /\ upper_head # <<>>
                    /\ HasRun(turtle_path, config.FH, 1)
                    /\ HasRun(AfterFh, config.UH, 2)

\* UH fails although the path has a long enough horizontal run before FH ends
C9_Witness ==
    /\ pc = "failed"
    /\ error = "UH"
    /\ HasRun(turtle_path, config.UH, 2)

\* C10: BSP is a path point at minimum distance from Mv', and the first such
\* point in path order.
C10_BspNearest ==
    pc = "marker" =>
        /\ bsp \in Range(turtle_path)
        /\ \A q \in Range(turtle_path) :
              DistSq(bsp, mv_shifted) <= DistSq(q, mv_shifted)
        /\ \A j \in 1 .. IndexOf(turtle_path, bsp) - 1 :
              DistSq(turtle_path[j], mv_shifted) > DistSq(bsp, mv_shifted)

\* another path point is exactly as close to Mv' as BSP
C10_Witness ==
    /\ pc = "marker"
    /\ \E q \in Range(turtle_path) :
          q # bsp /\ DistSq(q, mv_shifted) = DistSq(bsp, mv_shifted)

(***************************************************************************)
(* Trajectory sampler.  Lengths and offsets are a + b * sqrt(2), written   *)
(* <<a, b>>; a sample coordinate <<u, v>> is (u + v * sqrt(2)) / 2.         *)
(***************************************************************************)
\* the states right after a call of the sampler
SamplerReturned == pc \in {"sampled", "returned"}

SamplerRaised ==
    \/ pc = "raised"
    \/ pc = "failed" /\ error \in {"empty", "not_enough_length", "too_short"}

\* arc length of the polyline from its first vertex to vertex i
CumLength(path, i) ==
    <<Cardinality({j \in 1 .. i - 1 :
          path[j] # path[j + 1]
          /\ (path[j][1] = path[j + 1][1] \/ path[j][2] = path[j + 1][2])}),
      Cardinality({j \in 1 .. i - 1 :
          path[j][1] # path[j + 1][1] /\ path[j][2] # path[j + 1][2]})>>

\* m <= n for lengths
LengthLeq(m, n) == ~Positive(Minus(m, n))

\* C11: a successful sampler call asked for PBL >= 1 points returns exactly
\* PBL points, and so does every returned result.
C11_ExactlyPblPoints ==
    /\ (SamplerReturned /\ config.PBL >= 1) => Len(bending_points) = config.PBL
    /\ pc = "done" => Len(bending_points) = config.PBL

C11_Witness ==
    /\ pc = "returned"
    /\ config.PBL >= 2
    /\ Len(sampling_path) >= 3
    /\ Len(sampling_path) < Len(turtle_path)

\* C12: when the sub-path walked from the start vertex is shorter than
\* (PBL - 1) * step, the sampler fails for lack of length and no point is
\* returned.
C12_ShortPathFails ==
    ((SamplerReturned \/ SamplerRaised)
        /\ sampling_path # <<>>
        /\ ~LengthLeq(<<(config.PBL - 1) * config.sample_step, 0>>,
                      CumLength(sampling_path, Len(sampling_path)))) =>
        /\ SamplerRaised
        /\ error \in {"too_short", "not_enough_length"}
        /\ bending_points = <<>>

\* the sub-path has a diagonal segment and still is too short
C12_Witness ==
    /\ SamplerRaised
    /\ error = "too_short"
    /\ CumLength(sampling_path, Len(sampling_path))[2] >= 1

\* the point at distance r along the segment from p to q, one coordinate
Lerp(from, to, diagonal, r) ==
    IF diagonal
    THEN <<2 * from + 2 * (to - from) * r[2], (to - from) * r[1]>>
    ELSE <<2 * from + 2 * (to - from) * r[1], 2 * (to - from) * r[2]>>

\* s is the point of the polyline at arc-length offset off
AtOffset(path, off, s) ==
    \/ \E i \in 1 .. Len(path) :
          /\ CumLength(path, i) = off
          /\ s = <<<<2 * path[i][1], 0>>, <<2 * path[i][2], 0>>>>
    \/ \E i \in 1 .. Len(path) - 1 :
          LET r == Minus(off, CumLength(path, i))
              diagonal == path[i][1] # path[i + 1][1] /\ path[i][2] # path[i + 1][2]
          IN  /\ path[i] # path[i + 1]
              /\ LengthLeq(CumLength(path, i), off)
              /\ LengthLeq(off, CumLength(path, i + 1))
              /\ s = <<Lerp(path[i][1], path[i + 1][1], diagonal, r),
                       Lerp(path[i][2], path[i + 1][2], diagonal, r)>>

\* C13: on success sample k is the point of the sub-path at arc-length
\* offset (k - 1) * step, interpolated linearly between the vertices around
\* it: sample 1 is the start vertex, the offsets increase strictly, and a
\* sample whose offset falls on a vertex is that vertex.
C13_SamplesAtOffsets ==
    (SamplerReturned /\ config.PBL >= 1) =>
        /\ bending_points[1] = <<<<2 * sampling_path[1][1], 0>>,
                                 <<2 * sampling_path[1][2], 0>>>>
        /\ \A k \in 1 .. Len(bending_points) :
              /\ AtOffset(sampling_path, <<(k - 1) * config.sample_step, 0>>,
                          bending_points[k])
              /\ \A i \in 1 .. Len(sampling_path) :
                    CumLength(sampling_path, i) = <<(k - 1) * config.sample_step, 0>>
                        => bending_points[k] = <<<<2 * sampling_path[i][1], 0>>,
                                                 <<2 * sampling_path[i][2], 0>>>>
              /\ k > 1 => (k - 1) * config.sample_step > (k - 2) * config.sample_step

\* a sample lies inside a diagonal segment
C13_Witness ==
    /\ SamplerReturned
    /\ \E k \in 1 .. Len(bending_points) : bending_points[k][1][2] # 0

\* C20: the sub-path handed to the sampler starts at BSP and leads away from
\* TLSP: it is the suffix of the turtle path that begins at BSP, in
\* increasing index order, and holds no point between TLSP and BSP; when BSP
\* is TLSP it is the whole path.
C20_AwayFromTlsp ==
    pc = "marker" =>
        LET b == IndexOf(turtle_path, bsp)
        IN  /\ IndexOf(turtle_path, tlsp) = 1
            /\ sampling_path[1] = bsp
            /\ sampling_path = SubSeq(turtle_path, b, Len(turtle_path))
            /\ \A i \in 1 .. b - 1 : turtle_path[i] \notin Range(sampling_path)
            /\ bsp = tlsp => sampling_path = turtle_path

\* BSP lies strictly inside the path
C20_Witness ==
    /\ pc = "marker"
    /\ IndexOf(turtle_path, bsp) > 1
    /\ IndexOf(turtle_path, bsp) < Len(turtle_path)

(***************************************************************************)
(* Diagnostics of a returned result.                                       *)
(***************************************************************************)
Larger(a, b) == IF a >= b THEN a ELSE b

\* squared distance between BSP and the shifted marker
BspMvDistSq ==
    (bsp[1] - mv_shifted[1]) * (bsp[1] - mv_shifted[1])
        + (bsp[2] - mv_shifted[2]) * (bsp[2] - mv_shifted[2])

CriticalThreshold == Larger(20, 30 * config.sample_step)

WarnThreshold == Larger(12, 15 * config.sample_step)

Criticals ==
    {i \in 1 .. Len(diagnostics) : diagnostics[i].severity = "critical"}

DistanceWarnings ==
    {i \in 1 .. Len(diagnostics) :
        diagnostics[i].severity = "warning" /\ diagnostics[i].kind = "distance"}

\* the rule of the distance finding, d compared through its square
DistanceRule ==
    IF BspMvDistSq >= CriticalThreshold * CriticalThreshold
    THEN /\ Cardinality(Criticals) = 1
         /\ \A i \in Criticals : diagnostics[i].point = bsp
         /\ DistanceWarnings = {}
    ELSE IF BspMvDistSq >= WarnThreshold * WarnThreshold
    THEN /\ Cardinality(DistanceWarnings) = 1
         /\ \A i \in DistanceWarnings : diagnostics[i].point = bsp
         /\ Criticals = {}
    ELSE Criticals = {} /\ DistanceWarnings = {}

\* C14 as stated: the distance rule, and d = 25 at sample_step 1 gives
\* exactly one critical finding anchored at BSP.
C14_DistanceFindingAsStated ==
    pc = "done" =>
        /\ DistanceRule
        /\ (config.sample_step = 1 /\ BspMvDistSq = 625) =>
              /\ Cardinality(Criticals) = 1
              /\ \A i \in Criticals : diagnostics[i].point = bsp

\* C14 (amended): with d = distance(BSP, Mv'), the diagnostics hold exactly
\* one critical finding anchored at BSP when d >= max(20, 30 * sample_step),
\* otherwise exactly one distance warning anchored at BSP when
\* d >= max(12, 15 * sample_step), otherwise no distance finding, never both;
\* d = 25 at sample_step 1 gives exactly one distance warning and no critical.
C14_DistanceFinding ==
    pc = "done" =>
        /\ DistanceRule
        /\ (config.sample_step = 1 /\ BspMvDistSq = 625) =>
              /\ Cardinality(DistanceWarnings) = 1
              /\ \A i \in DistanceWarnings : diagnostics[i].point = bsp
              /\ Criticals = {}

C14_Witness ==
    pc = "done" /\ config.sample_step = 1 /\ BspMvDistSq = 625

\* one of the critical or warning rules applies to the result
RuleFired ==
    \/ BspMvDistSq >= WarnThreshold * WarnThreshold
    \/ Len(front_head) <= config.FH
    \/ Len(upper_head) <= config.UH
    \/ Len(turtle_path) < Larger(config.PBL, 100)

Infos == {i \in 1 .. Len(diagnostics) : diagnostics[i].severity = "info"}

\* C15: the diagnostics of a returned result are never empty; they hold an
\* info entry exactly when no critical or warning rule fired, and then the
\* info entry is the only element.
C15_InfoIffNoFinding ==
    pc = "done" =>
        /\ diagnostics # <<>>
        /\ Infos # {} <=> ~RuleFired
        /\ Infos # {} => Len(diagnostics) = 1

C15_Witness ==
    pc = "done" /\ Len(diagnostics) = 1 /\ diagnostics[1].severity = "info"

(***************************************************************************)
(* Files                                                                   *)
(***************************************************************************)
\* C17: parsing the written output file gives back the bending points: as
\* many points, the same coordinates in the same order, and no point for
\* the header line.
C17_RoundTrip ==
    pc = "saved" =>
        LET r == parse_txt_points(out_file)
        IN  /\ r.ok
            /\ Len(r.points) = Len(bending_points)
            /\ \A k \in 1 .. Len(bending_points) :
                  /\ Number(r.points[k][1]) = bending_points[k][1]
                  /\ Number(r.points[k][2]) = bending_points[k][2]

\* C19: the list returned by parse_txt_points holds no point twice.
C19_Deduplicated ==
    pc = "parsed" => NoRepeat(points)

(***************************************************************************)
(* Batch driver                                                            *)
(***************************************************************************)
\* the file numbers logged as attempted, in log order
Attempted == SelectSeq(log, LAMBDA e : e[1] = "processing")

\* C16: the batch loop attempts every file of the list in list order; each
\* file raises exactly one of num_success and num_fail by one, whatever
\* step fails and with whatever exception; a failure never stops the loop,
\* and when the loop ends num_success + num_fail is the number of files.
C16_BatchCounts ==
    /\ [](pc # "on_run_raised")
    /\ [](pc \in {"loop", "batch_done"} =>
            /\ num_success + num_fail = next_file
            /\ Attempted = [k \in 1 .. next_file |-> <<"processing", k>>]
            /\ num_success =
                  Cardinality({k \in 1 .. next_file : file_list[k].fails_at = "none"}))
    /\ [](pc = "batch_done" =>
            /\ next_file = Len(file_list)
            /\ num_success + num_fail = Len(file_list))
    /\ [][(pc = "loop" /\ pc' = "loop") =>
            /\ next_file' = next_file + 1
            /\ \/ num_success' = num_success + 1 /\ num_fail' = num_fail
               \/ num_success' = num_success /\ num_fail' = num_fail + 1]_vars

\* a file that fails with an exception other than the domain error is
\* followed by a file that succeeds
C16_Witness ==
    /\ pc = "batch_done"
    /\ \E i, j \in 1 .. Len(file_list) :
          /\ i < j
          /\ file_list[i].raises = "Exception"
          /\ file_list[j].fails_at = "none"
    /\ num_success >= 1
    /\ num_fail >= 1

(***************************************************************************)
(* Far end of the ordered path                                             *)
(***************************************************************************)
\* number of 8-neighbour steps of a shortest chain inside S from a point of
\* R to b, counted from k; -1 when b cannot be reached
RECURSIVE Hops(_, _, _, _)
Hops(S, R, b, k) ==
    IF b \in R THEN k
    ELSE LET R2 == R \cup {q \in S : \E r \in R : Adjacent(r, q)}
         IN  IF R2 = R THEN 0 - 1 ELSE Hops(S, R2, b, k + 1)

HopDist(S, a, b) == Hops(S, {a}, b, 0)

\* indices of the degree-1 points of the turtle component other than TLSP
OtherEndpointIdx ==
    {i \in EndpointIdx(turtle_component) : turtle_component[i] # tlsp}

\* C21: for an 8-connected turtle component the returned path is a chain of
\* minimum hop count from TLSP to its last point; when the component has
\* degree-1 points other than TLSP that last point is the other degree-1
\* point of largest hop distance from TLSP, the first one in endpoint order
\* on ties; otherwise it is a point of largest hop distance from TLSP in the
\* whole component, and among the points at that distance one of largest y.
C21_FarEndpoint ==
    (pc = "ordered" /\ Connected(Range(turtle_component))) =>
        LET c == turtle_component
            S == Range(c)
            end == Last(turtle_path)
            d == [q \in S |-> HopDist(S, tlsp, q)]
            E == OtherEndpointIdx
        IN  /\ turtle_path[1] = tlsp
            /\ Len(turtle_path) - 1 = d[end]
            /\ \A i \in 1 .. Len(turtle_path) - 1 :
                  /\ turtle_path[i + 1] \in S
                  /\ Adjacent(turtle_path[i], turtle_path[i + 1])
            /\ IF E # {}
               THEN \E i \in E :
                       /\ end = c[i]
                       /\ \A j \in E : d[c[j]] <= d[c[i]]
                       /\ \A j \in E : j < i => d[c[j]] < d[c[i]]
               ELSE /\ \A q \in S : d[q] <= d[end]
                    /\ \A q \in S : d[q] = d[end] => q[2] <= end[2]

\* two other degree-1 points tie at the largest hop distance from TLSP
C21_Witness ==
    /\ pc = "ordered"
    /\ Connected(Range(turtle_component))
    /\ \E i, j \in OtherEndpointIdx :
          /\ i < j
          /\ HopDist(Range(turtle_component), tlsp, turtle_component[i])
                = HopDist(Range(turtle_component), tlsp, turtle_component[j])
          /\ \A k \in OtherEndpointIdx :
                HopDist(Range(turtle_component), tlsp, turtle_component[k])
                   <= HopDist(Range(turtle_component), tlsp, turtle_component[i])
          /\ HopDist(Range(turtle_component), tlsp, turtle_component[i]) >= 2

\* no degree-1 point besides TLSP, and two points tie at the largest hop
\* distance from TLSP
C21_NoOtherEndpoint ==
    /\ pc = "ordered"
    /\ Connected(Range(turtle_component))
    /\ OtherEndpointIdx = {}
    /\ \E q \in Range(turtle_component) :
          /\ q # Last(turtle_path)
          /\ HopDist(Range(turtle_component), tlsp, q) = Len(turtle_path) - 1
          /\ q[2] < Last(turtle_path)[2]

\* find_tlsp has returned or has raised its error
AfterFindTlsp ==
    pc = "ordered" \/ (pc = "failed" /\ error = "path_too_short")

\* C22: for an 8-connected turtle component find_tlsp raises the
\* path-too-short error exactly when the component is a single point; with
\* two or more points the BFS reconstruction has at least 2 points and is
\* the returned path, so the greedy walk is not used.
C22_TooShortIffSinglePoint ==
    (AfterFindTlsp /\ Connected(Range(turtle_component))) =>
        /\ pc = "failed" <=> Cardinality(Range(turtle_component)) = 1
        /\ Cardinality(Range(turtle_component)) >= 2 =>
              LET first == BfsPathOf(turtle_component, TlspOf(turtle_component))
              IN  /\ Len(first) >= 2
                  /\ pc = "ordered"
                  /\ turtle_path = first
                  /\ Len(turtle_path) >= 2

\* find_tlsp has raised on a component of one point
C22_Witness ==
    /\ pc = "failed"
    /\ error = "path_too_short"
    /\ Len(turtle_component) = 1

\* find_tlsp has returned a path of exactly two points
C22_TwoPoints ==
    /\ pc = "ordered"
    /\ Connected(Range(turtle_component))
    /\ Len(turtle_path) = 2

(***************************************************************************)
(* Greedy walk                                                             *)
(***************************************************************************)
\* the points of the component next to the end of the path and not on it
UnvisitedAround(path, S) ==
    {q \in S : Adjacent(Last(path), q) /\ q \notin Range(path)}

\* the member of U next to q that comes first in neighbour order
FirstAround(q, U) ==
    LET i == CHOOSE i \in 1 .. 8 :
                 /\ <<q[1] + NeighborOffsets[i][1],
                      q[2] + NeighborOffsets[i][2]>> \in U
                 /\ \A j \in 1 .. i - 1 :
                       <<q[1] + NeighborOffsets[j][1],
                         q[2] + NeighborOffsets[j][2]>> \notin U
    IN  <<q[1] + NeighborOffsets[i][1], q[2] + NeighborOffsets[i][2]>>

\* the point one more step of the last step's direction beyond the end
Continuation(path) ==
    <<2 * path[Len(path)][1] - path[Len(path) - 1][1],
      2 * path[Len(path)][2] - path[Len(path) - 1][2]>>

FindingsOf(kind) ==
    {i \in 1 .. Len(diagnostics) : diagnostics[i].kind = kind}

\* position of a kind of finding in the order the rules are evaluated
KindRank(kind) ==
    CASE kind = "distance" -> 1
      [] kind = "FH" -> 2
      [] kind = "UH" -> 3
      [] kind = "short_path" -> 4
      [] OTHER -> 5

\* C24: the diagnostics hold the FH boundary warning exactly when the FH run
\* has at most FH points, and the UH boundary warning exactly when the UH
\* run has at most UH points (a point count is at or below a threshold
\* exactly when it is at or below the threshold's integer part); each is a
\* single warning, whatever the other rules do; the findings are listed in
\* the order distance, FH, UH, short-path.
C24_BoundaryWarnings ==
    pc = "done" =>
        /\ Cardinality(FindingsOf("FH")) =
              IF Len(front_head) <= config.FH THEN 1 ELSE 0
        /\ Cardinality(FindingsOf("UH")) =
              IF Len(upper_head) <= config.UH THEN 1 ELSE 0
        /\ \A i \in FindingsOf("FH") \cup FindingsOf("UH") :
              diagnostics[i].severity = "warning"
        /\ \A i, j \in 1 .. Len(diagnostics) :
              i < j => KindRank(diagnostics[i].kind) < KindRank(diagnostics[j].kind)

\* all four findings fired
C24_Witness ==
    /\ pc = "done"
    /\ Len(diagnostics) = 4
    /\ Len(front_head) = config.FH
    /\ Len(upper_head) = config.UH

\* the FH warning without the UH warning, next to a distance finding
C24_FhOnly ==
    /\ pc = "done"
    /\ FindingsOf("FH") # {}
    /\ FindingsOf("UH") = {}
    /\ FindingsOf("distance") # {}

\* the UH warning without the FH warning and without a distance finding
C24_UhOnly ==
    /\ pc = "done"
    /\ FindingsOf("UH") # {}
    /\ FindingsOf("FH") = {}
    /\ FindingsOf("distance") = {}

\* a boundary warning on a path that is not short
C24_LongPath ==
    /\ pc = "done"
    /\ FindingsOf("UH") # {}
    /\ FindingsOf("short_path") = {}

(***************************************************************************)
(* Reported components                                                     *)
(***************************************************************************)
\* C25: in a returned result the two components of longest_two_components,
\* summarised in longest_two_lines_info, are the two components that
\* pick_two_longest_lines selected, so the turtle component (which holds
\* turtle_lowest_point and every point of the turtle path) is one of them.
C25_ReportedAreSelected ==
    pc = "done" =>
        /\ Range(longest_two_components) = {comp1, comp2}
        /\ longest_two_info =
              [k \in 1 .. Len(longest_two_components) |->
                  <<MaxByY(longest_two_components[k]),
                    Len(longest_two_components[k])>>]
        /\ turtle_component \in Range(longest_two_components)
        /\ turtle_lowest_point \in Range(turtle_component)
        /\ Range(turtle_path) \subseteq Range(turtle_component)

(***************************************************************************)
(* Sampler preconditions                                                   *)
(***************************************************************************)
\* the sampler was called directly and has returned or raised
SamplerCalled == pc \in {"returned", "raised"}

\* C26: called on a non-empty polyline with a start index in range,
\* PBL >= 1 and step > 0, with at least (PBL - 1) * step of arc length from
\* the start vertex in the walking direction, the sampler returns PBL points
\* and does not raise; the first of them is the start vertex, also when the
\* start vertex is the last vertex in the walking direction.
C26_SamplerSucceeds ==
    (/\ SamplerCalled
     /\ turtle_path # <<>>
     /\ config.PBL >= 1
     /\ config.sample_step > 0
     /\ LengthLeq(<<(config.PBL - 1) * config.sample_step, 0>>,
                  CumLength(sampling_path, Len(sampling_path)))) =>
        /\ pc = "returned"
        /\ Len(bending_points) = config.PBL
        /\ bending_points[1] = Exact(sampling_path[1])

(***************************************************************************)
(* Input file list                                                         *)
(***************************************************************************)
\* C27: after any sequence of on_add_files, on_remove_selected, Clear All
\* and on_generate_example the input file list holds at most 500 paths.
C27_AtMostLimit ==
    pc = "idle" => Len(file_list) <= FileLimit
====
